---- MODULE Spec2Model ----
(***************************************************************************)
(* A model of the nvtt_rs binding layer (src/src/lib.rs):                  *)
(*   - the output-streaming bridge of Compressor::compress: the           *)
(*     thread_local session state, the three callbacks the native engine  *)
(*     invokes, and the packaging of the result;                          *)
(*   - OutputOptions::set_output_location and the path conversion;        *)
(*   - the ownership of the four native handles (new / into_raw / Drop);  *)
(*   - the decl_enum! conversions between the public enums and the native *)
(*     values;                                                            *)
(*   - InputOptions::set_format and InputOptions::set_mipmap_data.        *)
(* The native engine (nvttCompress and friends) is outside the            *)
(* repository: it is modelled as an environment that, during a compress   *)
(* call, invokes the callbacks installed on the output-options handle in  *)
(* any order and finally returns NVTT_True or NVTT_False.                 *)
(***************************************************************************)
EXTENDS Integers, Sequences, FiniteSets, TLC

(***************************************************************************)
(* Bounds of the model.                                                    *)
(***************************************************************************)
\* callback invocations the native engine makes during one compress call
MaxHooks == 3
\* the same, per call, when two threads compress at once
MaxConcHooks == 2

(***************************************************************************)
(* Universe of the model.                                                  *)
(***************************************************************************)
Threads == {"t1", "t2"}

Kinds == {"Compressor", "CompressionOptions", "InputOptions", "OutputOptions"}

\* the wrapper objects the model follows: two of each type
Ids == {1, 2}

Handles == Kinds \X Ids

OutHandles == {"OutputOptions"} \X Ids

InHandles == {"InputOptions"} \X Ids

\* the handles of one wrapper type among hs
OfKind(k, hs) == {h \in hs : h[1] = k}

\* the wrappers a program passes together to one compress call
Bundle(i) == {<<k, i>> : k \in Kinds}

\* target_family of the build (cfg_if in to_c_filepath)
Platforms == {"unix", "windows"}

(***************************************************************************)
(* enum NvttError of the native header, as bindgen generates it            *)
(* (the NvttError_NVTT_Error_ constants): the header's order, from 0.      *)
(***************************************************************************)
NvttErrorValue ==
    [Unknown |-> 0, InvalidInput |-> 1, UnsupportedFeature |-> 2, CudaError |-> 3,
     FileOpen |-> 4, FileWrite |-> 5, UnsupportedOutputFormat |-> 6]

\* decl_enum! { pub enum Error: NvttError { ... } }: the branches as declared
ErrorDecl ==
    << <<"CudaError", NvttErrorValue.CudaError>>,
       <<"FileOpen", NvttErrorValue.FileOpen>>,
       <<"FileWrite", NvttErrorValue.FileWrite>>,
       <<"InvalidInput", NvttErrorValue.InvalidInput>>,
       <<"Unknown", NvttErrorValue.Unknown>>,
       <<"UnsupportedFeature", NvttErrorValue.UnsupportedFeature>>,
       <<"UnsupportedOutputFormat", NvttErrorValue.UnsupportedOutputFormat>> >>

(***************************************************************************)
(* The other enums of the native header, as bindgen generates them (one    *)
(* constant per enumerator, the header's order, from 0; an enumerator      *)
(* defined as another one has its value).                                  *)
(***************************************************************************)
NvttContainerValue ==
    [DDS |-> 0, DDS10 |-> 1, KTX |-> 2]

NvttAlphaModeValue ==
    [None |-> 0, Transparency |-> 1, Premultiplied |-> 2]

NvttQualityValue ==
    [Fastest |-> 0, Normal |-> 1, Production |-> 2, Highest |-> 3]

\* RGBA is RGB, and BC1, BC1a, BC2, BC3, BC3n are DXT1, DXT1a, DXT3, DXT5, DXT5n
NvttFormatValue ==
    [RGB |-> 0, RGBA |-> 0, DXT1 |-> 1, DXT1a |-> 2, DXT3 |-> 3, DXT5 |-> 4,
     DXT5n |-> 5, BC1 |-> 1, BC1a |-> 2, BC2 |-> 3, BC3 |-> 4, BC3n |-> 5,
     BC4 |-> 6, BC5 |-> 7, DXT1n |-> 8, CTX1 |-> 9, BC6 |-> 10, BC7 |-> 11,
     BC3_RGBM |-> 12, ETC1 |-> 13, ETC2_R |-> 14, ETC2_RG |-> 15, ETC2_RGB |-> 16,
     ETC2_RGBA |-> 17, ETC2_RGB_A1 |-> 18, ETC2_RGBM |-> 19, PVR_2BPP_RGB |-> 20,
     PVR_4BPP_RGB |-> 21, PVR_2BPP_RGBA |-> 22, PVR_4BPP_RGBA |-> 23]

NvttInputFormatValue ==
    [BGRA_8UB |-> 0, RGBA_16F |-> 1, RGBA_32F |-> 2, R_32F |-> 3]

NvttRoundModeValue ==
    [None |-> 0, ToNextPowerOfTwo |-> 1, ToNearestPowerOfTwo |-> 2,
     ToPreviousPowerOfTwo |-> 3, ToNextMultipleOfFour |-> 4,
     ToNearestMultipleOfFour |-> 5, ToPreviousMultipleOfFour |-> 6]

NvttTextureTypeValue ==
    [TextureType_2D |-> 0, TextureType_Cube |-> 1, TextureType_3D |-> 2,
     TextureType_Array |-> 3]

NvttWrapModeValue ==
    [Clamp |-> 0, Repeat |-> 1, Mirror |-> 2]

\* the decl_enum! declarations, each with its branches as declared
ContainerDecl ==
    << <<"Dds", NvttContainerValue.DDS>>,
       <<"Dds10", NvttContainerValue.DDS10>>,
       <<"Ktx", NvttContainerValue.KTX>> >>

AlphaModeDecl ==
    << <<"None", NvttAlphaModeValue.None>>,
       <<"Premultiplied", NvttAlphaModeValue.Premultiplied>>,
       <<"Transparency", NvttAlphaModeValue.Transparency>> >>

QualityDecl ==
    << <<"Fastest", NvttQualityValue.Fastest>>,
       <<"Highest", NvttQualityValue.Highest>>,
       <<"Normal", NvttQualityValue.Normal>>,
       <<"Production", NvttQualityValue.Production>> >>

FormatDecl ==
    << <<"Bc1", NvttFormatValue.BC1>>,
       <<"Bc1a", NvttFormatValue.BC1a>>,
       <<"Bc2", NvttFormatValue.BC2>>,
       <<"Bc3", NvttFormatValue.BC3>>,
       <<"Bc3n", NvttFormatValue.BC3n>>,
       <<"Bc3_Rgbm", NvttFormatValue.BC3_RGBM>>,
       <<"Bc4", NvttFormatValue.BC4>>,
       <<"Bc5", NvttFormatValue.BC5>>,
       <<"Bc6", NvttFormatValue.BC6>>,
       <<"Bc7", NvttFormatValue.BC7>>,
       <<"Ctx1", NvttFormatValue.CTX1>>,
       <<"Dxt1", NvttFormatValue.DXT1>>,
       <<"Dxt1a", NvttFormatValue.DXT1a>>,
       <<"Dxt1n", NvttFormatValue.DXT1n>>,
       <<"Dxt3", NvttFormatValue.DXT3>>,
       <<"Dxt5", NvttFormatValue.DXT5>>,
       <<"Dxt5n", NvttFormatValue.DXT5n>>,
       <<"Etc1", NvttFormatValue.ETC1>>,
       <<"Etc2_R", NvttFormatValue.ETC2_R>>,
       <<"Etc2_Rg", NvttFormatValue.ETC2_RG>>,
       <<"Etc2_Rgb", NvttFormatValue.ETC2_RGB>>,
       <<"Etc2_Rgba", NvttFormatValue.ETC2_RGBA>>,
       <<"Etc2_Rgbm", NvttFormatValue.ETC2_RGBM>>,
       <<"Etc2_Rgb_A1", NvttFormatValue.ETC2_RGB_A1>>,
       <<"Pvr_2Bpp_Rgb", NvttFormatValue.PVR_2BPP_RGB>>,
       <<"Pvr_2Bpp_Rgba", NvttFormatValue.PVR_2BPP_RGBA>>,
       <<"Pvr_4Bpp_Rgb", NvttFormatValue.PVR_4BPP_RGB>>,
       <<"Pvr_4Bpp_Rgba", NvttFormatValue.PVR_4BPP_RGBA>>,
       <<"Rgb", NvttFormatValue.RGB>>,
       <<"Rgba", NvttFormatValue.RGBA>> >>

InputFormatDecl ==
    << <<"Bgra8Ub", NvttInputFormatValue.BGRA_8UB>>,
       <<"Rgba16F", NvttInputFormatValue.RGBA_16F>>,
       <<"Rgba32F", NvttInputFormatValue.RGBA_32F>>,
       <<"R32F", NvttInputFormatValue.R_32F>> >>

RoundModeDecl ==
    << <<"None", NvttRoundModeValue.None>>,
       <<"ToNearestMultipleOfFour", NvttRoundModeValue.ToNearestMultipleOfFour>>,
       <<"ToNearestPowerOfTwo", NvttRoundModeValue.ToNearestPowerOfTwo>>,
       <<"ToNextMultipleOfFour", NvttRoundModeValue.ToNextMultipleOfFour>>,
       <<"ToNextPowerOfTwo", NvttRoundModeValue.ToNextPowerOfTwo>>,
       <<"ToPreviousMultipleOfFour", NvttRoundModeValue.ToPreviousMultipleOfFour>>,
       <<"ToPreviousPowerOfTwo", NvttRoundModeValue.ToPreviousPowerOfTwo>> >>

TextureTypeDecl ==
    << <<"D2", NvttTextureTypeValue.TextureType_2D>>,
       <<"Cube", NvttTextureTypeValue.TextureType_Cube>>,
       <<"D3", NvttTextureTypeValue.TextureType_3D>>,
       <<"Array", NvttTextureTypeValue.TextureType_Array>> >>

WrapModeDecl ==
    << <<"Clamp", NvttWrapModeValue.Clamp>>,
       <<"Mirror", NvttWrapModeValue.Mirror>>,
       <<"Repeat", NvttWrapModeValue.Repeat>> >>

\* every decl_enum! type of the crate
EnumDecl ==
    [Container |-> ContainerDecl, AlphaMode |-> AlphaModeDecl, Quality |-> QualityDecl,
     Format |-> FormatDecl, InputFormat |-> InputFormatDecl, RoundMode |-> RoundModeDecl,
     TextureType |-> TextureTypeDecl, WrapMode |-> WrapModeDecl, Error |-> ErrorDecl]

\* impl From<$enum_name> for $raw: match val { $enum_name::$rust_nm => $sys_nm }
EnumToRaw(decl, name) ==
    LET i == CHOOSE j \in 1..Len(decl) : decl[j][1] = name IN decl[i][2]

\* variant: the raw value taken as the position of the branch
EnumTryFrom_by_position(decl, raw) ==
    IF raw + 1 \in 1..Len(decl) THEN [ok |-> TRUE, val |-> decl[raw + 1][1]]
    ELSE [ok |-> FALSE, val |-> ""]

\* variant: a value no branch matches gives the first enumerant
EnumTryFrom_defaulting(decl, raw) ==
    LET hits == {j \in 1..Len(decl) : decl[j][2] = raw}
    IN  IF hits = {} THEN [ok |-> TRUE, val |-> decl[1][1]]
        ELSE [ok |-> TRUE,
              val |-> decl[CHOOSE j \in hits : \A k \in hits : j <= k][1]]

\* variant: the last branch whose $sys_nm matches
EnumTryFrom_last_wins(decl, raw) ==
    LET hits == {j \in 1..Len(decl) : decl[j][2] = raw}
    IN  IF hits = {} THEN [ok |-> FALSE, val |-> ""]
        ELSE [ok |-> TRUE,
              val |-> decl[CHOOSE j \in hits : \A k \in hits : j >= k][1]]

\* impl TryFrom<$raw> for $enum_name: the first branch whose $sys_nm matches,
\* Err(()) when none does
EnumTryFrom(decl, raw) ==
    LET hits == {j \in 1..Len(decl) : decl[j][2] = raw}
    IN  IF hits = {} THEN [ok |-> FALSE, val |-> ""]
        ELSE [ok |-> TRUE,
              val |-> decl[CHOOSE j \in hits : \A k \in hits : j <= k][1]]

\* variant: Error::try_from(err).unwrap_or(the first enumerant declared)
ErrorOrUnknown_first(err) ==
    LET r == EnumTryFrom(ErrorDecl, err) IN IF r.ok THEN r.val ELSE ErrorDecl[1][1]

\* Error::try_from(err).unwrap_or(Error::Unknown)
ErrorOrUnknown(err) ==
    LET r == EnumTryFrom(ErrorDecl, err) IN IF r.ok THEN r.val ELSE "Unknown"

\* `x as usize` for a c_int that is not negative
AsUsize(x) == x

\* `x as usize` for every c_int, on a 64-bit target: the value is sign
\* extended.  A usize is written as its four 16-bit limbs, the most
\* significant first.
AsUsizeLimbs(x) ==
    IF x >= 0
    THEN <<0, 0, x \div 65536, x % 65536>>
    ELSE LET y == (x + 2147483647) + 1
         IN  <<65535, 65535, 32768 + (y \div 65536), y % 65536>>

\* Vec<u8>::reserve(additional) on a vector of len < 65536 bytes panics with
\* "capacity overflow" when len + additional exceeds isize::MAX
CapacityOverflow(len, additional) ==
    \/ additional[1] >= 32768
    \/ /\ additional[1] = 32767 /\ additional[2] = 65535 /\ additional[3] = 65535
       /\ additional[4] + len > 65535

\* usize::try_from(len) for a c_int
UsizeTryFrom(len) ==
    IF len >= 0 THEN [ok |-> TRUE, val |-> len] ELSE [ok |-> FALSE, val |-> 0]

(***************************************************************************)
(* Inputs the environment draws from.                                      *)
(***************************************************************************)
\* codes the native engine may pass to the error handler: the seven of the
\* header and one the public enum does not declare
ErrCodes == 0..7

\* arguments of one begin-image callback
BeginArgs ==
    { [size |-> 2, width |-> 4, height |-> 2, depth |-> 1, face |-> 0, miplevel |-> 0],
      [size |-> 1, width |-> 2, height |-> 1, depth |-> 1, face |-> 0, miplevel |-> 1],
      [size |-> 0, width |-> 1, height |-> 3, depth |-> 2, face |-> 5, miplevel |-> 2] }

\* (bytes behind data_ptr, len) of one output callback; the last one carries
\* a negative length
Chunks ==
    { [data |-> << >>, len |-> 0],
      [data |-> <<7>>, len |-> 1],
      [data |-> <<8, 9>>, len |-> 2],
      [data |-> << >>, len |-> -1] }

NvttBoolean == {"NVTT_True", "NVTT_False"}

\* impl From<bool> for NvttBoolean
NvttBoolean_from(b) == IF b THEN "NVTT_True" ELSE "NVTT_False"

\* variant: the comparison is with NVTT_False
bool_from_inverted(b) == b = "NVTT_False"

\* impl From<NvttBoolean> for bool: b == NvttBoolean::NVTT_True
bool_from(b) == b = "NVTT_True"

\* impl Not for NvttBoolean
NvttBoolean_not(self) ==
    CASE self = "NVTT_False" -> "NVTT_True"
      [] self = "NVTT_True" -> "NVTT_False"

\* impl PartialEq<bool> for NvttBoolean: bool::from(*self) == *rhs
NvttBoolean_eq(self, rhs) == bool_from(self) = rhs

\* impl PartialEq<NvttBoolean> for bool: PartialEq::eq(rhs, self)
bool_eq(self, rhs) == NvttBoolean_eq(rhs, self)

\* file paths, as the bytes of the OsStr: ASCII, with an interior nul,
\* valid UTF-8 that is not ASCII, and an unpaired surrogate (not UTF-8); the
\* last two also followed by a nul
Paths == { <<97>>, <<97, 0, 98>>, <<195, 169>>, <<237, 160, 128>>,
           <<195, 169, 0>>, <<237, 160, 128, 0>> }

(***************************************************************************)
(* State.                                                                  *)
(***************************************************************************)
VARIABLES
    \* thread_local! statics of Compressor::compress, one instance per thread
    ERR, OUT_DATA, HEIGHT, WIDTH, DEPTH, FACE, MIPLEVEL,
    \* per thread: position of its compress call, the wrappers it borrows,
    \* and the value the last call returned
    pc, args, ret,
    \* per thread, history of the current (or last) call: the code of the last
    \* error callback, the arguments of the last begin callback, the bytes of
    \* all output callbacks, the bytes since the last begin callback, the
    \* number of callbacks, the destination of the OutputOptions it was given
    hErr, hBegin, hData, hTail, hCount, hDest,
    \* per wrapper: its life cycle and the thread that holds it
    wrapper, owner,
    \* OutputOptions.write_to_file, and the destination the last successful
    \* set_output_location selected
    write_to_file, dest,
    \* native state of each handle: the destroy calls it received, the
    \* callbacks installed on it, its file name
    destroyed, errorHandler, outputHandler, fileName,
    \* the target family the crate is built for
    platform,
    \* per thread, the last call of the public API: what it was given, the
    \* native functions it called, in order, and the Result it returned when
    \* it was not compress
    hOp, calls, opRet,
    \* a conversion under evaluation: the function, its input, its output
    px,
    \* native state of each InputOptions handle: its input format
    inFormat,
    \* whether hOp, calls and opRet are kept in this run
    traced,
    \* per thread, what nvttCompress returned to the current (or last) call
    hStatus,
    \* native state of each InputOptions handle: its texture layout
    inLayout

tls == <<ERR, OUT_DATA, HEIGHT, WIDTH, DEPTH, FACE, MIPLEVEL>>
call == <<pc, args, ret>>
hist == <<hErr, hBegin, hData, hTail, hCount, hDest>>
objs == <<wrapper, owner, write_to_file, dest>>
native == <<destroyed, errorHandler, outputHandler, fileName>>
last == <<hOp, calls, opRet>>
ext == <<px, inFormat, traced, hStatus, inLayout>>
vars == <<tls, call, hist, objs, native, platform, last, ext>>

\* history values: no error callback yet, no begin callback yet
\* (n counts the callbacks of that kind, fired says n > 0)
NoCode == [fired |-> FALSE, n |-> 0, code |-> 0]
Code(prev, err) == [fired |-> TRUE, n |-> prev.n + 1, code |-> err]
NoBegin == [fired |-> FALSE, n |-> 0, size |-> 0, width |-> 0, height |-> 0, depth |-> 0,
            face |-> 0, miplevel |-> 0]
Begin(prev, b) ==
    [fired |-> TRUE, n |-> prev.n + 1, size |-> b.size, width |-> b.width,
     height |-> b.height, depth |-> b.depth, face |-> b.face, miplevel |-> b.miplevel]

\* the arguments of a call: the function, the wrapper it is called on (or
\* constructs), the pointer the native create function returned, the
\* OutputLocation, the length of the data slice and the dimensions given to
\* set_mipmap_data
NoLoc == [file |-> FALSE, path |-> << >>]
NoMip == [len |-> 0, w |-> 0, h |-> 0, d |-> 0]
NoOp == [op |-> "none", h |-> <<"none", 0>>, ptr |-> "", loc |-> NoLoc, mip |-> NoMip,
         img |-> "none"]

\* the texture layout of a native InputOptions after
\* nvttResetInputOptionsTextureLayout: no image
DefaultLayout == [type |-> "D2", w |-> 0, h |-> 0, d |-> 0, array_size |-> 0]

\* no conversion is under evaluation
NoPx == [fn |-> "none"]

\* Result of a constructor or of set_output_location: Ok, or Err(error)
OpOk == [kind |-> "Ok", error |-> ""]
OpErr(error) == [kind |-> "Err", error |-> error]
NoOpRet == [kind |-> "None", error |-> ""]

\* the record of the last call of thread t, kept when the run is traced
Given(t, op) == hOp' = [hOp EXCEPT ![t] = IF traced THEN op ELSE @]
Called(t, fs) == calls' = [calls EXCEPT ![t] = IF traced THEN fs ELSE @]
Returned(t, r) == opRet' = [opRet EXCEPT ![t] = IF traced THEN r ELSE @]

\* no compress call is running
NoArgs == [c |-> <<"Compressor", 0>>, co |-> <<"CompressionOptions", 0>>,
           io |-> <<"InputOptions", 0>>, oo |-> <<"OutputOptions", 0>>]

\* the native handle has no file name / no callbacks
NoPath == << >>
NoHandler == [begin |-> "None", output |-> "None", end |-> "None"]

\* Result<CompressionOutput, Error> of compress, with kind "None" before the
\* first return and during a call
Ret(kind, error, data, w, h, d, f, m) ==
    [kind |-> kind, error |-> error, data |-> data, width |-> w, height |-> h,
     depth |-> d, face |-> f, miplevel |-> m]

NoRet == Ret("None", "", << >>, 0, 0, 0, 0, 0)

(***************************************************************************)
(* The callbacks of Compressor::compress.                                  *)
(***************************************************************************)
\* Vec::reserve(additional): the content of the vector is kept
Reserve(v, additional) == v

\* variant: the first code recorded is kept
err_callback_first_wins(t, err) ==
    ERR' = [ERR EXCEPT ![t] = IF @ = 0 THEN err ELSE @]

\* std::thread_local!: the callback running on thread t reaches the instance
\* of thread t only
err_callback(t, err) ==
    ERR' = [ERR EXCEPT ![t] = err]

\* variant: width and height stored in each other's cell
output_begin_callback_swapped(t, size, width, height, depth, face, miplevel) ==
    /\ OUT_DATA' = [OUT_DATA EXCEPT ![t] = Reserve(@, AsUsize(size))]
    /\ WIDTH' = [WIDTH EXCEPT ![t] = AsUsize(height)]
    /\ HEIGHT' = [HEIGHT EXCEPT ![t] = AsUsize(width)]
    /\ DEPTH' = [DEPTH EXCEPT ![t] = AsUsize(depth)]
    /\ FACE' = [FACE EXCEPT ![t] = AsUsize(face)]
    /\ MIPLEVEL' = [MIPLEVEL EXCEPT ![t] = AsUsize(miplevel)]

\* variant: the accumulator is cleared for each subresource
output_begin_callback_clearing(t, size, width, height, depth, face, miplevel) ==
    /\ OUT_DATA' = [OUT_DATA EXCEPT ![t] = Reserve(<< >>, AsUsize(size))]
    /\ WIDTH' = [WIDTH EXCEPT ![t] = AsUsize(width)]
    /\ HEIGHT' = [HEIGHT EXCEPT ![t] = AsUsize(height)]
    /\ DEPTH' = [DEPTH EXCEPT ![t] = AsUsize(depth)]
    /\ FACE' = [FACE EXCEPT ![t] = AsUsize(face)]
    /\ MIPLEVEL' = [MIPLEVEL EXCEPT ![t] = AsUsize(miplevel)]

\* variant: Vec::resize in place of Vec::reserve, the hint becomes content
output_begin_callback_resizing(t, size, width, height, depth, face, miplevel) ==
    /\ OUT_DATA' = [OUT_DATA EXCEPT ![t] = @ \o [i \in 1..AsUsize(size) |-> 0]]
    /\ WIDTH' = [WIDTH EXCEPT ![t] = AsUsize(width)]
    /\ HEIGHT' = [HEIGHT EXCEPT ![t] = AsUsize(height)]
    /\ DEPTH' = [DEPTH EXCEPT ![t] = AsUsize(depth)]
    /\ FACE' = [FACE EXCEPT ![t] = AsUsize(face)]
    /\ MIPLEVEL' = [MIPLEVEL EXCEPT ![t] = AsUsize(miplevel)]

output_begin_callback(t, size, width, height, depth, face, miplevel) ==
    /\ OUT_DATA' = [OUT_DATA EXCEPT ![t] = Reserve(@, AsUsize(size))]
    /\ WIDTH' = [WIDTH EXCEPT ![t] = AsUsize(width)]
    /\ HEIGHT' = [HEIGHT EXCEPT ![t] = AsUsize(height)]
    /\ DEPTH' = [DEPTH EXCEPT ![t] = AsUsize(depth)]
    /\ FACE' = [FACE EXCEPT ![t] = AsUsize(face)]
    /\ MIPLEVEL' = [MIPLEVEL EXCEPT ![t] = AsUsize(miplevel)]

\* variant: the chunk is put in front of the accumulated bytes
output_callback_prepending(t, data, len) ==
    LET l == UsizeTryFrom(len)
    IN  IF ~l.ok
        THEN OUT_DATA' = OUT_DATA
        ELSE OUT_DATA' = [OUT_DATA EXCEPT ![t] = SubSeq(data, 1, l.val) \o @]

\* variant: OUT_DATA is one static shared by all threads
output_callback_shared(t, data, len) ==
    LET l == UsizeTryFrom(len)
    IN  IF ~l.ok
        THEN OUT_DATA' = OUT_DATA
        ELSE OUT_DATA' = [u \in Threads |-> OUT_DATA[u] \o SubSeq(data, 1, l.val)]

\* variant: a length that is no usize is passed over, and true is returned
output_callback_result_unchecked(acc, data, len) ==
    LET l == UsizeTryFrom(len)
    IN  IF ~l.ok
        THEN [acc |-> acc, ret |-> TRUE]
        ELSE [acc |-> acc \o SubSeq(data, 1, l.val), ret |-> TRUE]

\* how output_begin_callback ends on an accumulator of len bytes: it returns,
\* or OUT_DATA.reserve(size as usize) panics
output_begin_callback_outcome(len, size) ==
    IF CapacityOverflow(len, AsUsizeLimbs(size)) THEN "panics" ELSE "returns"

\* the body of output_callback on the accumulator acc: the accumulator it
\* leaves and the bool it returns; false, and nothing appended, when len is
\* no usize
output_callback_result(acc, data, len) ==
    LET l == UsizeTryFrom(len)
    IN  IF ~l.ok
        THEN [acc |-> acc, ret |-> FALSE]
        ELSE [acc |-> acc \o SubSeq(data, 1, l.val), ret |-> TRUE]

output_callback(t, data, len) ==
    OUT_DATA' = [OUT_DATA EXCEPT ![t] = output_callback_result(@, data, len).acc]

(***************************************************************************)
(* Compressor::compress, up to the point where nvttCompress runs.          *)
(***************************************************************************)
\* variant: a file destination has the output handler of the handle removed
compress_enter_uninstalling(t, c, co, io, oo) ==
    /\ OUT_DATA' = [OUT_DATA EXCEPT ![t] = << >>]
    /\ errorHandler' = [errorHandler EXCEPT ![oo] = "err_callback"]
    /\ outputHandler' =
          [outputHandler EXCEPT ![oo] =
              IF ~write_to_file[oo]
              THEN [begin |-> "output_begin_callback", output |-> "output_callback",
                    end |-> "None"]
              ELSE NoHandler]
    /\ Called(t, <<"nvttSetOutputOptionsErrorHandler",
                   "nvttSetOutputOptionsOutputHandler", "nvttCompress">>)
    /\ pc' = [pc EXCEPT ![t] = "Streaming"]
    /\ args' = [args EXCEPT ![t] = [c |-> c, co |-> co, io |-> io, oo |-> oo]]

\* variant: OUT_DATA is not cleared
compress_enter_keeping(t, c, co, io, oo) ==
    /\ OUT_DATA' = OUT_DATA
    /\ errorHandler' = [errorHandler EXCEPT ![oo] = "err_callback"]
    /\ outputHandler' =
          IF ~write_to_file[oo]
          THEN [outputHandler EXCEPT ![oo] =
                  [begin |-> "output_begin_callback", output |-> "output_callback",
                   end |-> "None"]]
          ELSE outputHandler
    /\ Called(t, <<"nvttSetOutputOptionsErrorHandler">>
                 \o (IF ~write_to_file[oo]
                     THEN <<"nvttSetOutputOptionsOutputHandler">> ELSE << >>)
                 \o <<"nvttCompress">>)
    /\ pc' = [pc EXCEPT ![t] = "Streaming"]
    /\ args' = [args EXCEPT ![t] = [c |-> c, co |-> co, io |-> io, oo |-> oo]]

compress_enter(t, c, co, io, oo) ==
    /\ OUT_DATA' = [OUT_DATA EXCEPT ![t] = << >>]
    /\ errorHandler' = [errorHandler EXCEPT ![oo] = "err_callback"]
    /\ outputHandler' =
          IF ~write_to_file[oo]
          THEN [outputHandler EXCEPT ![oo] =
                  [begin |-> "output_begin_callback", output |-> "output_callback",
                   end |-> "None"]]
          ELSE outputHandler
    /\ Called(t, <<"nvttSetOutputOptionsErrorHandler">>
                 \o (IF ~write_to_file[oo]
                     THEN <<"nvttSetOutputOptionsOutputHandler">> ELSE << >>)
                 \o <<"nvttCompress">>)
    /\ pc' = [pc EXCEPT ![t] = "Streaming"]
    /\ args' = [args EXCEPT ![t] = [c |-> c, co |-> co, io |-> io, oo |-> oo]]

(***************************************************************************)
(* Compressor::compress, from the return of nvttCompress with status res.  *)
(***************************************************************************)
\* variant: a code in the error slot makes the call fail
compress_exit_checking_slot(t, res) ==
    /\ IF res # "NVTT_True" \/ ERR[t] # 0
       THEN /\ ret' = [ret EXCEPT ![t] =
                         Ret("Err", ErrorOrUnknown(ERR[t]), << >>, 0, 0, 0, 0, 0)]
            /\ OUT_DATA' = OUT_DATA
       ELSE IF ~write_to_file[args[t].oo]
            THEN /\ ret' = [ret EXCEPT ![t] =
                              Ret("Memory", "", OUT_DATA[t], WIDTH[t], HEIGHT[t],
                                  DEPTH[t], FACE[t], MIPLEVEL[t])]
                 /\ OUT_DATA' = [OUT_DATA EXCEPT ![t] = << >>]
            ELSE /\ ret' = [ret EXCEPT ![t] = Ret("File", "", << >>, 0, 0, 0, 0, 0)]
                 /\ OUT_DATA' = OUT_DATA
    /\ pc' = [pc EXCEPT ![t] = "Idle"]
    /\ args' = [args EXCEPT ![t] = NoArgs]

\* variant: the accumulator is cloned for the caller and keeps its bytes
compress_exit_cloning(t, res) ==
    /\ IF res # "NVTT_True"
       THEN ret' = [ret EXCEPT ![t] =
                      Ret("Err", ErrorOrUnknown(ERR[t]), << >>, 0, 0, 0, 0, 0)]
       ELSE IF ~write_to_file[args[t].oo]
            THEN ret' = [ret EXCEPT ![t] =
                           Ret("Memory", "", OUT_DATA[t], WIDTH[t], HEIGHT[t],
                               DEPTH[t], FACE[t], MIPLEVEL[t])]
            ELSE ret' = [ret EXCEPT ![t] = Ret("File", "", << >>, 0, 0, 0, 0, 0)]
    /\ OUT_DATA' = OUT_DATA
    /\ pc' = [pc EXCEPT ![t] = "Idle"]
    /\ args' = [args EXCEPT ![t] = NoArgs]

compress_exit(t, res) ==
    /\ IF res # "NVTT_True"
       THEN /\ ret' = [ret EXCEPT ![t] =
                         Ret("Err", ErrorOrUnknown(ERR[t]), << >>, 0, 0, 0, 0, 0)]
            /\ OUT_DATA' = OUT_DATA
       ELSE IF ~write_to_file[args[t].oo]
            THEN /\ ret' = [ret EXCEPT ![t] =
                              Ret("Memory", "", OUT_DATA[t], WIDTH[t], HEIGHT[t],
                                  DEPTH[t], FACE[t], MIPLEVEL[t])]
                 /\ OUT_DATA' = [OUT_DATA EXCEPT ![t] = << >>]
            ELSE /\ ret' = [ret EXCEPT ![t] = Ret("File", "", << >>, 0, 0, 0, 0, 0)]
                 /\ OUT_DATA' = OUT_DATA
    /\ pc' = [pc EXCEPT ![t] = "Idle"]
    /\ args' = [args EXCEPT ![t] = NoArgs]

(***************************************************************************)
(* OutputOptions::set_output_location.                                     *)
(***************************************************************************)
\* one byte of a UTF-8 continuation
IsCont(s, i) == i <= Len(s) /\ s[i] >= 128 /\ s[i] <= 191

\* Path::to_str() is Some: the bytes from position i on are valid UTF-8
RECURSIVE Utf8From(_, _)
Utf8From(s, i) ==
    IF i > Len(s) THEN TRUE
    ELSE LET b == s[i] IN
         IF b < 128 THEN Utf8From(s, i + 1)
         ELSE IF b >= 194 /\ b <= 223 THEN IsCont(s, i + 1) /\ Utf8From(s, i + 2)
         ELSE IF b >= 224 /\ b <= 239
              THEN /\ IsCont(s, i + 1) /\ IsCont(s, i + 2)
                   /\ (b = 224 => s[i + 1] >= 160)
                   /\ (b = 237 => s[i + 1] <= 159)
                   /\ Utf8From(s, i + 3)
         ELSE IF b >= 240 /\ b <= 244
              THEN /\ IsCont(s, i + 1) /\ IsCont(s, i + 2) /\ IsCont(s, i + 3)
                   /\ (b = 240 => s[i + 1] >= 144)
                   /\ (b = 244 => s[i + 1] <= 143)
                   /\ Utf8From(s, i + 4)
         ELSE FALSE

\* str::is_ascii
IsAscii(s) == \A i \in 1..Len(s) : s[i] < 128

PathOk(cstr) == [ok |-> TRUE, err |-> "", cstr |-> cstr]
PathErr(err) == [ok |-> FALSE, err |-> err, cstr |-> << >>]

\* variant: the bytes up to the first nul are taken
CStringNew_truncating(bytes) ==
    IF \E i \in 1..Len(bytes) : bytes[i] = 0
    THEN PathOk(SubSeq(bytes, 1, (CHOOSE i \in 1..Len(bytes) :
                                    bytes[i] = 0 /\ \A j \in 1..(i - 1) : bytes[j] # 0) - 1))
    ELSE PathOk(bytes)

\* CString::new(bytes).map_err(From::from): NulError on an interior nul byte
CStringNew(bytes) ==
    IF \E i \in 1..Len(bytes) : bytes[i] = 0 THEN PathErr("Nul") ELSE PathOk(bytes)

\* variant: on windows the nul check comes first
to_c_filepath_nul_first(family, path) ==
    IF family = "windows"
    THEN IF ~CStringNew(path).ok THEN PathErr("Nul")
         ELSE IF Utf8From(path, 1)
              THEN IF ~IsAscii(path) THEN PathErr("AsciiConvert") ELSE PathOk(path)
              ELSE PathErr("Utf8Convert")
    ELSE CStringNew(path)

to_c_filepath(family, path) ==
    IF family = "windows"
    THEN IF Utf8From(path, 1)
         THEN IF ~IsAscii(path) THEN PathErr("AsciiConvert") ELSE CStringNew(path)
         ELSE PathErr("Utf8Convert")
    ELSE CStringNew(path)

\* OutputLocation: File(path) or Buffer
Locations == {[file |-> TRUE, path |-> p] : p \in Paths} \cup {[file |-> FALSE, path |-> << >>]}

\* variant: write_to_file is set before the path is converted
inner_eager(oo, loc) ==
    IF loc.file
    THEN LET out_file == to_c_filepath(platform, loc.path) IN
         /\ write_to_file' = [write_to_file EXCEPT ![oo] = TRUE]
         /\ fileName' = IF out_file.ok THEN [fileName EXCEPT ![oo] = out_file.cstr]
                        ELSE fileName
         /\ Called(owner[oo], IF out_file.ok THEN <<"nvttSetOutputOptionsFileName">>
                              ELSE << >>)
    ELSE /\ write_to_file' = [write_to_file EXCEPT ![oo] = FALSE]
         /\ Called(owner[oo], << >>)
         /\ UNCHANGED fileName

\* inner(opts, loc), called on the thread that holds opts; its Result is
\* to_c_filepath's for File, Ok for Buffer
inner(oo, loc) ==
    IF loc.file
    THEN LET out_file == to_c_filepath(platform, loc.path) IN
         IF out_file.ok
         THEN /\ fileName' = [fileName EXCEPT ![oo] = out_file.cstr]
              /\ Called(owner[oo], <<"nvttSetOutputOptionsFileName">>)
              /\ write_to_file' = [write_to_file EXCEPT ![oo] = TRUE]
         ELSE /\ Called(owner[oo], << >>)
              /\ UNCHANGED <<fileName, write_to_file>>
    ELSE /\ write_to_file' = [write_to_file EXCEPT ![oo] = FALSE]
         /\ Called(owner[oo], << >>)
         /\ UNCHANGED fileName

inner_result(loc) ==
    IF loc.file THEN to_c_filepath(platform, loc.path) ELSE PathOk(<< >>)

(***************************************************************************)
(* Construction, into_raw and Drop of the four wrapper types.  ptr is what *)
(* the native create function returned: "null" or the handle.              *)
(***************************************************************************)
\* variant: NonNull::new_unchecked(ptr), the pointer is wrapped as it is
NonNullNew_unchecked(h, ptr, t) ==
    /\ wrapper' = [wrapper EXCEPT ![h] = "owned"]
    /\ owner' = [owner EXCEPT ![h] = t]
    /\ Returned(t, OpOk)

\* NonNull::new(ptr).map(Self).ok_or(Error::Unknown)
NonNullNew(h, ptr, t) ==
    IF ptr = "null"
    THEN /\ UNCHANGED <<wrapper, owner>>
         /\ Returned(t, OpErr("Unknown"))
    ELSE /\ wrapper' = [wrapper EXCEPT ![h] = "owned"]
         /\ owner' = [owner EXCEPT ![h] = t]
         /\ Returned(t, OpOk)

Compressor_new(h, ptr, t) ==
    /\ Called(t, <<"nvttCreateCompressor">>)
    /\ NonNullNew(h, ptr, t) /\ UNCHANGED write_to_file

CompressionOptions_new(h, ptr, t) ==
    /\ Called(t, <<"nvttCreateCompressionOptions">>)
    /\ NonNullNew(h, ptr, t) /\ UNCHANGED write_to_file

InputOptions_new(h, ptr, t) ==
    /\ Called(t, <<"nvttCreateInputOptions">>)
    /\ NonNullNew(h, ptr, t) /\ UNCHANGED write_to_file

OutputOptions_new(h, ptr, t) ==
    /\ Called(t, <<"nvttCreateOutputOptions">>)
    /\ NonNullNew(h, ptr, t)
    /\ IF ptr = "null"
       THEN UNCHANGED write_to_file
       ELSE write_to_file' = [write_to_file EXCEPT ![h] = TRUE]

\* mem::forget(self): the wrapper is gone and its Drop does not run
Compressor_into_raw(h) ==
    wrapper' = [wrapper EXCEPT ![h] = "raw"] /\ UNCHANGED destroyed

CompressionOptions_into_raw(h) ==
    wrapper' = [wrapper EXCEPT ![h] = "raw"] /\ UNCHANGED destroyed

InputOptions_into_raw(h) ==
    wrapper' = [wrapper EXCEPT ![h] = "raw"] /\ UNCHANGED destroyed

\* variant: self is not forgotten, so its Drop runs when into_raw returns
OutputOptions_into_raw_dropping(h) ==
    /\ wrapper' = [wrapper EXCEPT ![h] = "raw"]
    /\ destroyed' = [destroyed EXCEPT ![h] = Append(@, "nvttDestroyOutputOptions")]

OutputOptions_into_raw(h) ==
    wrapper' = [wrapper EXCEPT ![h] = "raw"] /\ UNCHANGED destroyed

Compressor_drop(h) ==
    /\ destroyed' = [destroyed EXCEPT ![h] = Append(@, "nvttDestroyCompressor")]
    /\ Called(owner[h], <<"nvttDestroyCompressor">>)
    /\ wrapper' = [wrapper EXCEPT ![h] = "dropped"]

CompressionOptions_drop(h) ==
    /\ destroyed' = [destroyed EXCEPT ![h] = Append(@, "nvttDestroyCompressionOptions")]
    /\ Called(owner[h], <<"nvttDestroyCompressionOptions">>)
    /\ wrapper' = [wrapper EXCEPT ![h] = "dropped"]

InputOptions_drop(h) ==
    /\ destroyed' = [destroyed EXCEPT ![h] = Append(@, "nvttDestroyInputOptions")]
    /\ Called(owner[h], <<"nvttDestroyInputOptions">>)
    /\ wrapper' = [wrapper EXCEPT ![h] = "dropped"]

OutputOptions_drop(h) ==
    /\ destroyed' = [destroyed EXCEPT ![h] = Append(@, "nvttDestroyOutputOptions")]
    /\ Called(owner[h], <<"nvttDestroyOutputOptions">>)
    /\ wrapper' = [wrapper EXCEPT ![h] = "dropped"]

(***************************************************************************)
(* InputOptions::set_format and InputOptions::set_mipmap_data.             *)
(***************************************************************************)
set_format(io, format) ==
    /\ inFormat' = [inFormat EXCEPT ![io] = format]
    /\ Called(owner[io], <<"nvttSetInputOptionsFormat">>)
    /\ UNCHANGED inLayout

\* nvttSetInputOptionsMipmapData is given data.as_ptr(), w, h, d, face and
\* mipmap, and returns result; the length of data is given to nobody
set_mipmap_data(io, data_len, w, h, d, face, mipmap, result) ==
    /\ Called(owner[io], <<"nvttSetInputOptionsMipmapData">>)
    /\ Returned(owner[io], IF result = "NVTT_True" THEN OpOk ELSE OpErr("Unknown"))
    /\ UNCHANGED <<inFormat, inLayout>>

\* InputOptions::reset: nvttResetInputOptionsTextureLayout puts the texture
\* layout of the handle back to its default
reset(io) ==
    /\ inLayout' = [inLayout EXCEPT ![io] = DefaultLayout]
    /\ Called(owner[io], <<"nvttResetInputOptionsTextureLayout">>)
    /\ UNCHANGED inFormat

\* InputOptions::set_texture_layout
set_texture_layout(io, texture_type, w, h, d, array_size) ==
    /\ inLayout' = [inLayout EXCEPT ![io] =
                      [type |-> texture_type, w |-> w, h |-> h, d |-> d,
                       array_size |-> array_size]]
    /\ Called(owner[io], <<"nvttSetInputOptionsTextureLayout">>)
    /\ UNCHANGED inFormat

\* ValidImage::format
ImageFormat(kind) ==
    CASE kind = "Bgra" -> "Bgra8Ub"
      [] kind = "Rgba" -> "Rgba32F"
      [] kind = "Luma" -> "R32F"

\* the length of ValidImage::data_bytes: four u8, four f32 or one f32 a pixel
ImageBytes(image) ==
    image.w * image.h * (CASE image.kind = "Bgra" -> 4
                           [] image.kind = "Rgba" -> 16
                           [] image.kind = "Luma" -> 4)

\* variant: a failure of the last step puts the format and the layout back
set_image_rolling_back(io, image, face, mipmap, result) ==
    /\ inFormat' = IF result = "NVTT_True"
                   THEN [inFormat EXCEPT ![io] = ImageFormat(image.kind)]
                   ELSE inFormat
    /\ inLayout' = IF result = "NVTT_True"
                   THEN [inLayout EXCEPT ![io] =
                           [type |-> "D2", w |-> image.w, h |-> image.h, d |-> 1,
                            array_size |-> 1]]
                   ELSE inLayout
    /\ Called(owner[io], <<"nvttResetInputOptionsTextureLayout",
                           "nvttSetInputOptionsFormat",
                           "nvttSetInputOptionsTextureLayout",
                           "nvttSetInputOptionsMipmapData">>)
    /\ Returned(owner[io], IF result = "NVTT_True" THEN OpOk ELSE OpErr("Unknown"))

\* InputOptions::set_image: reset, set_format(image.format()),
\* set_texture_layout(TextureType::D2, w, h, 1, 1) and
\* set_mipmap_data(image.data_bytes(), w, h, 1, face, mipmap)?, in this
\* order on the one handle; the layout reset writes is overwritten by
\* set_texture_layout, and `?` returns the error of the last step with the
\* three steps before it done
set_image(io, image, face, mipmap, result) ==
    LET afterReset  == [inLayout EXCEPT ![io] = DefaultLayout]
        afterFormat == [inFormat EXCEPT ![io] = ImageFormat(image.kind)]
        afterLayout == [afterReset EXCEPT ![io] =
                          [type |-> "D2", w |-> image.w, h |-> image.h, d |-> 1,
                           array_size |-> 1]]
    IN  /\ inFormat' = afterFormat
        /\ inLayout' = afterLayout
        /\ Called(owner[io], <<"nvttResetInputOptionsTextureLayout",
                               "nvttSetInputOptionsFormat",
                               "nvttSetInputOptionsTextureLayout",
                               "nvttSetInputOptionsMipmapData">>)
        /\ Returned(owner[io],
                    IF result = "NVTT_True" THEN OpOk ELSE OpErr("Unknown"))

(***************************************************************************)
(* Actions.  A thread is inside compress from CompressCall to              *)
(* CompressReturn (the call is synchronous), and the wrappers it passed    *)
(* are borrowed meanwhile: every other operation on a wrapper needs the    *)
(* thread that holds it to be outside compress.                            *)
(***************************************************************************)
Held(h, t) == wrapper[h] = "owned" /\ owner[h] = t /\ pc[t] = "Idle"

\* compressor.compress(&compression_opts, &input_opts, &output_opts) on thread t
CompressCall(t, c, co, io, oo) ==
    /\ c[1] = "Compressor" /\ co[1] = "CompressionOptions"
    /\ io[1] = "InputOptions" /\ oo[1] = "OutputOptions"
    /\ \A h \in {c, co, io, oo} : Held(h, t)
    /\ compress_enter(t, c, co, io, oo)
    /\ ret' = [ret EXCEPT ![t] = NoRet]
    /\ hErr' = [hErr EXCEPT ![t] = NoCode]
    /\ hBegin' = [hBegin EXCEPT ![t] = NoBegin]
    /\ hData' = [hData EXCEPT ![t] = << >>]
    /\ hTail' = [hTail EXCEPT ![t] = << >>]
    /\ hCount' = [hCount EXCEPT ![t] = 0]
    /\ hDest' = [hDest EXCEPT ![t] = dest[oo]]
    /\ Given(t, [NoOp EXCEPT !.op = "compress", !.h = oo])
    /\ Returned(t, NoOpRet)
    /\ hStatus' = [hStatus EXCEPT ![t] = "None"]
    /\ UNCHANGED <<ERR, HEIGHT, WIDTH, DEPTH, FACE, MIPLEVEL, objs, destroyed, fileName,
                   platform, px, inFormat, traced, inLayout>>

\* the native engine, inside nvttCompress on thread t, calls the error handler
ErrorHook(t, err) ==
    /\ pc[t] = "Streaming" /\ hCount[t] < MaxHooks
    /\ errorHandler[args[t].oo] = "err_callback"
    /\ err_callback(t, err)
    /\ hErr' = [hErr EXCEPT ![t] = Code(@, err)]
    /\ hCount' = [hCount EXCEPT ![t] = @ + 1]
    /\ UNCHANGED <<OUT_DATA, HEIGHT, WIDTH, DEPTH, FACE, MIPLEVEL, call, hBegin, hData,
                   hTail, hDest, objs, native, platform, last, ext>>

\* ... calls the begin-image handler
BeginHook(t, b) ==
    /\ pc[t] = "Streaming" /\ hCount[t] < MaxHooks
    /\ outputHandler[args[t].oo].begin = "output_begin_callback"
    /\ output_begin_callback(t, b.size, b.width, b.height, b.depth, b.face, b.miplevel)
    /\ hBegin' = [hBegin EXCEPT ![t] = Begin(@, b)]
    /\ hTail' = [hTail EXCEPT ![t] = << >>]
    /\ hCount' = [hCount EXCEPT ![t] = @ + 1]
    /\ UNCHANGED <<ERR, call, hErr, hData, hDest, objs, native, platform, last, ext>>

\* ... calls the output handler with a pointer to ch.data and the length ch.len
DataHook(t, ch) ==
    /\ pc[t] = "Streaming" /\ hCount[t] < MaxHooks
    /\ outputHandler[args[t].oo].output = "output_callback"
    /\ output_callback(t, ch.data, ch.len)
    /\ hData' = [hData EXCEPT ![t] = @ \o ch.data]
    /\ hTail' = [hTail EXCEPT ![t] = @ \o ch.data]
    /\ hCount' = [hCount EXCEPT ![t] = @ + 1]
    /\ UNCHANGED <<ERR, HEIGHT, WIDTH, DEPTH, FACE, MIPLEVEL, call, hErr, hBegin, hDest,
                   objs, native, platform, last, ext>>

\* nvttCompress returns res, and compress returns
CompressReturn(t, res) ==
    /\ pc[t] = "Streaming"
    /\ compress_exit(t, res)
    /\ hStatus' = [hStatus EXCEPT ![t] = res]
    /\ UNCHANGED <<ERR, HEIGHT, WIDTH, DEPTH, FACE, MIPLEVEL, hist, objs, native, platform,
                   last, px, inFormat, traced, inLayout>>

\* output_opts.set_output_location(loc) on thread t
SetOutputLocation(t, oo, loc) ==
    /\ oo[1] = "OutputOptions" /\ Held(oo, t)
    /\ inner(oo, loc)
    /\ Returned(t, IF inner_result(loc).ok THEN OpOk ELSE OpErr(inner_result(loc).err))
    /\ dest' = IF inner_result(loc).ok
               THEN [dest EXCEPT ![oo] = IF loc.file THEN "file" ELSE "memory"]
               ELSE dest
    /\ Given(t, [NoOp EXCEPT !.op = "set_output_location", !.h = oo, !.loc = loc])
    /\ UNCHANGED <<tls, call, hist, wrapper, owner, destroyed, errorHandler,
                   outputHandler, platform, ext>>

\* X::new() on thread t, the native create function returning ptr
New(t, h, ptr) ==
    /\ pc[t] = "Idle" /\ wrapper[h] = "none"
    /\ CASE h[1] = "Compressor" -> Compressor_new(h, ptr, t)
         [] h[1] = "CompressionOptions" -> CompressionOptions_new(h, ptr, t)
         [] h[1] = "InputOptions" -> InputOptions_new(h, ptr, t)
         [] h[1] = "OutputOptions" -> OutputOptions_new(h, ptr, t)
    /\ Given(t, [NoOp EXCEPT !.op = "new", !.h = h, !.ptr = ptr])
    /\ UNCHANGED <<tls, call, hist, dest, native, platform, ext>>

\* x.into_raw() on thread t
IntoRaw(t, h) ==
    /\ Held(h, t)
    /\ CASE h[1] = "Compressor" -> Compressor_into_raw(h)
         [] h[1] = "CompressionOptions" -> CompressionOptions_into_raw(h)
         [] h[1] = "InputOptions" -> InputOptions_into_raw(h)
         [] h[1] = "OutputOptions" -> OutputOptions_into_raw(h)
    /\ Given(t, [NoOp EXCEPT !.op = "into_raw", !.h = h])
    /\ Called(t, << >>)
    /\ Returned(t, NoOpRet)
    /\ UNCHANGED <<tls, call, hist, owner, write_to_file, dest, errorHandler,
                   outputHandler, fileName, platform, ext>>

\* the wrapper goes out of scope on thread t
DropWrapper(t, h) ==
    /\ Held(h, t)
    /\ CASE h[1] = "Compressor" -> Compressor_drop(h)
         [] h[1] = "CompressionOptions" -> CompressionOptions_drop(h)
         [] h[1] = "InputOptions" -> InputOptions_drop(h)
         [] h[1] = "OutputOptions" -> OutputOptions_drop(h)
    /\ Given(t, [NoOp EXCEPT !.op = "drop", !.h = h])
    /\ Returned(t, NoOpRet)
    /\ UNCHANGED <<tls, call, hist, owner, write_to_file, dest, errorHandler,
                   outputHandler, fileName, platform, ext>>

\* input_opts.set_format(format) on thread t
SetFormat(t, io, format) ==
    /\ io[1] = "InputOptions" /\ Held(io, t)
    /\ set_format(io, format)
    /\ Given(t, [NoOp EXCEPT !.op = "set_format", !.h = io])
    /\ Returned(t, NoOpRet)
    /\ UNCHANGED <<tls, call, hist, objs, native, platform, px, traced, hStatus>>

\* input_opts.set_mipmap_data(data, w, h, d, face, mipmap) on thread t, with
\* data.len() = data_len, the native function returning result
SetMipmapData(t, io, data_len, w, h, d, face, mipmap, result) ==
    /\ io[1] = "InputOptions" /\ Held(io, t)
    /\ set_mipmap_data(io, data_len, w, h, d, face, mipmap, result)
    /\ Given(t, [NoOp EXCEPT !.op = "set_mipmap_data", !.h = io,
                            !.mip = [len |-> data_len, w |-> w, h |-> h, d |-> d]])
    /\ UNCHANGED <<tls, call, hist, objs, native, platform, px, traced, hStatus>>

\* input_opts.reset() on thread t
Reset(t, io) ==
    /\ io[1] = "InputOptions" /\ Held(io, t)
    /\ reset(io)
    /\ Given(t, [NoOp EXCEPT !.op = "reset", !.h = io])
    /\ Returned(t, NoOpRet)
    /\ UNCHANGED <<tls, call, hist, objs, native, platform, px, traced, hStatus>>

\* input_opts.set_texture_layout(texture_type, w, h, d, array_size) on thread t
SetTextureLayout(t, io, texture_type, w, h, d, array_size) ==
    /\ io[1] = "InputOptions" /\ Held(io, t)
    /\ set_texture_layout(io, texture_type, w, h, d, array_size)
    /\ Given(t, [NoOp EXCEPT !.op = "set_texture_layout", !.h = io])
    /\ Returned(t, NoOpRet)
    /\ UNCHANGED <<tls, call, hist, objs, native, platform, px, traced, hStatus>>

\* input_opts.set_image(image, face, mipmap) on thread t, the native
\* nvttSetInputOptionsMipmapData returning result
SetImage(t, io, image, face, mipmap, result) ==
    /\ io[1] = "InputOptions" /\ Held(io, t)
    /\ set_image(io, image, face, mipmap, result)
    /\ Given(t, [NoOp EXCEPT !.op = "set_image", !.h = io, !.img = image.kind,
                            !.mip = [len |-> ImageBytes(image), w |-> image.w,
                                     h |-> image.h, d |-> 1]])
    /\ UNCHANGED <<tls, call, hist, objs, native, platform, px, traced, hStatus>>

\* unsafe impl Send: thread t hands the wrappers hs to thread u
Move(t, hs, u) ==
    /\ u # t
    /\ \A h \in hs : Held(h, t)
    /\ owner' = [h \in Handles |-> IF h \in hs THEN u ELSE owner[h]]
    /\ UNCHANGED <<tls, call, hist, wrapper, write_to_file, dest, native, platform, last, ext>>

(***************************************************************************)
(* Initial states.                                                         *)
(***************************************************************************)
\* nothing constructed; the thread_local statics hold their initializers
InitWith(made, families) ==
    /\ ERR = [t \in Threads |-> 0]
    /\ OUT_DATA = [t \in Threads |-> << >>]
    /\ HEIGHT = [t \in Threads |-> 0]
    /\ WIDTH = [t \in Threads |-> 0]
    /\ DEPTH = [t \in Threads |-> 0]
    /\ FACE = [t \in Threads |-> 0]
    /\ MIPLEVEL = [t \in Threads |-> 0]
    /\ pc = [t \in Threads |-> "Idle"]
    /\ args = [t \in Threads |-> NoArgs]
    /\ ret = [t \in Threads |-> NoRet]
    /\ hErr = [t \in Threads |-> NoCode]
    /\ hBegin = [t \in Threads |-> NoBegin]
    /\ hData = [t \in Threads |-> << >>]
    /\ hTail = [t \in Threads |-> << >>]
    /\ hCount = [t \in Threads |-> 0]
    /\ hDest = [t \in Threads |-> "file"]
    /\ wrapper = [h \in Handles |-> IF h \in made THEN "owned" ELSE "none"]
    /\ owner = [h \in Handles |-> "t1"]
    /\ write_to_file = [h \in OutHandles |-> TRUE]
    /\ dest = [h \in OutHandles |-> "file"]
    /\ destroyed = [h \in Handles |-> << >>]
    /\ errorHandler = [h \in OutHandles |-> "None"]
    /\ outputHandler = [h \in OutHandles |-> NoHandler]
    /\ fileName = [h \in OutHandles |-> NoPath]
    /\ platform \in families
    /\ hOp = [t \in Threads |-> NoOp]
    /\ calls = [t \in Threads |-> << >>]
    /\ opRet = [t \in Threads |-> NoOpRet]
    /\ inFormat = [h \in InHandles |-> "Bgra8Ub"]
    /\ traced \in BOOLEAN
    /\ hStatus = [t \in Threads |-> "None"]
    /\ inLayout = [h \in InHandles |-> DefaultLayout]

\* thread t1 has constructed one wrapper of each type
Init == InitWith(Bundle(1), Platforms) /\ ~traced /\ px = NoPx

\* the bridge on one thread
Next ==
    \/ CompressCall("t1", <<"Compressor", 1>>, <<"CompressionOptions", 1>>,
                    <<"InputOptions", 1>>, <<"OutputOptions", 1>>)
    \/ \E err \in ErrCodes : ErrorHook("t1", err)
    \/ \E b \in BeginArgs : BeginHook("t1", b)
    \/ \E ch \in Chunks : DataHook("t1", ch)
    \/ \E res \in NvttBoolean : CompressReturn("t1", res)
    \/ \E loc \in Locations : SetOutputLocation("t1", <<"OutputOptions", 1>>, loc)

Spec == Init /\ [][Next]_vars

(***************************************************************************)
(* Two threads compressing at once.  Thread t1 has constructed two         *)
(* wrappers of each type; wrappers reach t2 by being moved.                *)
(***************************************************************************)
InitThreads == InitWith(Bundle(1) \cup Bundle(2), {"unix"}) /\ ~traced /\ px = NoPx

\* what the native engine delivers differs from thread to thread
ConcErrCodes(t) ==
    IF t = "t1" THEN {NvttErrorValue.FileOpen} ELSE {NvttErrorValue.FileWrite}
ConcBeginArgs(t) ==
    IF t = "t1" THEN {b \in BeginArgs : b.size = 2} ELSE {b \in BeginArgs : b.size = 1}
ConcChunks(t) ==
    IF t = "t1" THEN {ch \in Chunks : ch.len = 1} ELSE {ch \in Chunks : ch.len = 2}
ConcLocations == {loc \in Locations : ~loc.file}

NextThreads ==
    \/ \E t \in Threads, i \in Ids :
          CompressCall(t, <<"Compressor", i>>, <<"CompressionOptions", i>>,
                       <<"InputOptions", i>>, <<"OutputOptions", i>>)
    \/ \E t \in Threads : \E err \in ConcErrCodes(t) :
          hCount[t] < MaxConcHooks /\ ErrorHook(t, err)
    \/ \E t \in Threads : \E b \in ConcBeginArgs(t) :
          hCount[t] < MaxConcHooks /\ BeginHook(t, b)
    \/ \E t \in Threads : \E ch \in ConcChunks(t) :
          hCount[t] < MaxConcHooks /\ DataHook(t, ch)
    \/ \E t \in Threads, res \in NvttBoolean : CompressReturn(t, res)
    \/ \E t \in Threads, oo \in OutHandles, loc \in ConcLocations :
          SetOutputLocation(t, oo, loc)
    \/ \E t, u \in Threads : Move(t, Bundle(2), u)

SpecThreads == InitThreads /\ [][NextThreads]_vars

(***************************************************************************)
(* The life cycle of the wrappers: nothing is constructed at the start;    *)
(* wrappers are constructed, used, surrendered with into_raw, and dropped. *)
(***************************************************************************)
InitLifecycle == InitWith({}, Platforms) /\ traced /\ px = NoPx

LifeLocations == {loc \in Locations : loc.path \in {<< >>, <<97>>}}

\* one wrapper of each type, and a second Compressor
LifeHandles == Bundle(1) \cup {<<"Compressor", 2>>}

NextLifecycle ==
    \/ \E h \in LifeHandles, ptr \in {"null", "handle"} : New("t1", h, ptr)
    \/ \E h \in LifeHandles : IntoRaw("t1", h)
    \/ \E h \in LifeHandles : DropWrapper("t1", h)
    \/ \E oo \in OfKind("OutputOptions", LifeHandles), loc \in LifeLocations :
          SetOutputLocation("t1", oo, loc)
    \/ \E c \in OfKind("Compressor", LifeHandles), oo \in OfKind("OutputOptions", LifeHandles) :
          CompressCall("t1", c, <<"CompressionOptions", 1>>, <<"InputOptions", 1>>, oo)
    \/ \E ch \in Chunks : hCount["t1"] < 1 /\ DataHook("t1", ch)
    \/ \E res \in NvttBoolean : CompressReturn("t1", res)

SpecLifecycle == InitLifecycle /\ [][NextLifecycle]_vars

(***************************************************************************)
(* The conversions of the crate, each applied to the inputs of a bounded   *)
(* set.  px holds one evaluation: for an enum, the type ty, the enumerant  *)
(* e it starts from (or "" when it starts from the native value raw), and  *)
(* the results of into (raw), try_from (back) and into again (raw2), of    *)
(* which the first stage are computed.                                     *)
(***************************************************************************)
EnumTypes == DOMAIN EnumDecl

Enumerants(ty) == {EnumDecl[ty][j][1] : j \in 1..Len(EnumDecl[ty])}

\* native values handed to try_from: those of the largest enum and two more
RawInputs == 0..25

NoBack == [ok |-> FALSE, val |-> ""]

\* an evaluation starts from an enumerant, or from a native value
EnumInputs ==
    UNION {{[fn |-> "enum", ty |-> ty, e |-> e, stage |-> 0, raw |-> 0,
             back |-> NoBack, raw2 |-> 0] : e \in Enumerants(ty)} : ty \in EnumTypes}
    \cup {[fn |-> "enum", ty |-> ty, e |-> "", stage |-> 1, raw |-> r,
           back |-> NoBack, raw2 |-> 0] : ty \in EnumTypes, r \in RawInputs}

\* output_callback on an accumulator of 0, 1 or 2 bytes, with the chunks of
\* Chunks, a length shorter than what lies behind data_ptr, and negative
\* lengths with bytes behind data_ptr
CallbackChunks ==
    Chunks \cup { [data |-> <<8, 9>>, len |-> 1], [data |-> <<7>>, len |-> -1],
                  [data |-> <<8, 9>>, len |-> -2147483647] }

CallbackInputs ==
    {[fn |-> "output_callback", acc |-> acc, data |-> ch.data, len |-> ch.len,
      stage |-> 0, out |-> [acc |-> << >>, ret |-> FALSE]] :
        acc \in {<< >>, <<1>>, <<1, 2>>}, ch \in CallbackChunks}

\* size hints given to output_begin_callback: the ends of c_int, and small
\* ones of both signs
SizeHints == {-2147483647, -1, 0, 1, 2, 2147483647}

BeginInputs ==
    {[fn |-> "output_begin_callback", len |-> len, size |-> size, stage |-> 0,
      out |-> ""] : len \in {0, 1, 2}, size \in SizeHints}

NoBooleans == [from_b |-> "", back_b |-> FALSE, from_n |-> FALSE, back_n |-> "",
               not |-> "", not_not |-> "", n_eq_b |-> FALSE, b_eq_n |-> FALSE]

\* a bool and an NvttBoolean to convert, negate and compare
BooleanInputs ==
    {[fn |-> "NvttBoolean", b |-> b, n |-> n, stage |-> 0, out |-> NoBooleans] :
        b \in BOOLEAN, n \in NvttBoolean}

\* everything but px
nonpx == <<tls, call, hist, objs, native, platform, last, inFormat, traced, hStatus,
          inLayout>>

\* let raw: $raw = e.into()
ToNative ==
    /\ px.fn = "enum" /\ px.stage = 0
    /\ px' = [px EXCEPT !.raw = EnumToRaw(EnumDecl[px.ty], px.e), !.stage = 1]
    /\ UNCHANGED nonpx

\* let back = $enum_name::try_from(raw)
FromNative ==
    /\ px.fn = "enum" /\ px.stage = 1
    /\ px' = [px EXCEPT !.back = EnumTryFrom(EnumDecl[px.ty], px.raw), !.stage = 2]
    /\ UNCHANGED nonpx

\* let raw2: $raw = back.unwrap().into()
ToNativeAgain ==
    /\ px.fn = "enum" /\ px.stage = 2 /\ px.back.ok
    /\ px' = [px EXCEPT !.raw2 = EnumToRaw(EnumDecl[px.ty], px.back.val), !.stage = 3]
    /\ UNCHANGED nonpx

(***************************************************************************)
(* set_output_location with every path, on both target families, between  *)
(* compress calls.                                                         *)
(***************************************************************************)
InitLocation == InitWith(Bundle(1), Platforms) /\ traced /\ px = NoPx

NextLocation ==
    \/ \E loc \in Locations : SetOutputLocation("t1", <<"OutputOptions", 1>>, loc)
    \/ CompressCall("t1", <<"Compressor", 1>>, <<"CompressionOptions", 1>>,
                    <<"InputOptions", 1>>, <<"OutputOptions", 1>>)
    \/ \E ch \in Chunks : hCount["t1"] < 1 /\ DataHook("t1", ch)
    \/ \E res \in NvttBoolean : CompressReturn("t1", res)

SpecLocation == InitLocation /\ [][NextLocation]_vars

(***************************************************************************)
(* The input image: set_format and set_mipmap_data with slices of several  *)
(* lengths and images of several dimensions.                               *)
(***************************************************************************)
InputFormats == Enumerants("InputFormat")

\* data.len() of the slices given to set_mipmap_data
MipLens == {0, 3, 4, 8, 16, 32}

\* width and height of the images (the depth is 1)
MipSides == {1, 2}

\* the images given to set_image
Images == [kind : {"Bgra", "Rgba", "Luma"}, w : MipSides, h : MipSides]

InitInput == InitWith(Bundle(1), {"unix"}) /\ traced /\ px = NoPx

NextInput ==
    \/ \E format \in InputFormats : SetFormat("t1", <<"InputOptions", 1>>, format)
    \/ \E data_len \in MipLens, w \in MipSides, h \in MipSides, result \in NvttBoolean :
          SetMipmapData("t1", <<"InputOptions", 1>>, data_len, w, h, 1, 0, 0, result)
    \/ Reset("t1", <<"InputOptions", 1>>)
    \/ \E texture_type \in Enumerants("TextureType"), w \in MipSides, h \in MipSides :
          SetTextureLayout("t1", <<"InputOptions", 1>>, texture_type, w, h, 1, 1)
    \/ \E image \in Images, result \in NvttBoolean :
          SetImage("t1", <<"InputOptions", 1>>, image, 0, 0, result)

SpecInput == InitInput /\ [][NextInput]_vars

\* output_callback(data_ptr, len) on the accumulator px.acc
ApplyOutputCallback ==
    /\ px.fn = "output_callback" /\ px.stage = 0
    /\ px' = [px EXCEPT !.out = output_callback_result(px.acc, px.data, px.len),
                        !.stage = 1]
    /\ UNCHANGED nonpx

\* output_begin_callback(size, ..) on an accumulator of px.len bytes
ApplyOutputBeginCallback ==
    /\ px.fn = "output_begin_callback" /\ px.stage = 0
    /\ px' = [px EXCEPT !.out = output_begin_callback_outcome(px.len, px.size),
                        !.stage = 1]
    /\ UNCHANGED nonpx

\* NvttBoolean::from(b), bool::from(n), the conversions back, !n, !!n,
\* n == b and b == n
ApplyBooleanConversions ==
    /\ px.fn = "NvttBoolean" /\ px.stage = 0
    /\ px' = [px EXCEPT !.stage = 1,
                        !.out = [from_b  |-> NvttBoolean_from(px.b),
                                 back_b  |-> bool_from(NvttBoolean_from(px.b)),
                                 from_n  |-> bool_from(px.n),
                                 back_n  |-> NvttBoolean_from(bool_from(px.n)),
                                 not     |-> NvttBoolean_not(px.n),
                                 not_not |-> NvttBoolean_not(NvttBoolean_not(px.n)),
                                 n_eq_b  |-> NvttBoolean_eq(px.n, px.b),
                                 b_eq_n  |-> bool_eq(px.b, px.n)]]
    /\ UNCHANGED nonpx

InitConversions ==
    /\ InitWith({}, {"unix"}) /\ ~traced
    /\ (px \in EnumInputs \/ px \in CallbackInputs \/ px \in BeginInputs
          \/ px \in BooleanInputs)

NextConversions ==
    \/ ToNative
    \/ FromNative
    \/ ToNativeAgain
    \/ ApplyOutputCallback
    \/ ApplyOutputBeginCallback
    \/ ApplyBooleanConversions

SpecConversions == InitConversions /\ [][NextConversions]_vars

(***************************************************************************)
(* Properties.                                                             *)
(***************************************************************************)
\* the native codes the public Error enum declares
RecognizedCodes == {NvttErrorValue[n] : n \in DOMAIN NvttErrorValue}

\* C1: when compress returns Err and the error callback ran during the call
\* with one of the seven codes of the header, the returned Error is the one
\* whose native value is the code of the last error callback.
C1_LastErrorCodeReturned ==
    \A t \in Threads :
        (ret[t].kind = "Err" /\ hErr[t].fired /\ hErr[t].code \in RecognizedCodes)
            => EnumToRaw(ErrorDecl, ret[t].error) = hErr[t].code

\* a failed call during which the error callback ran twice, the last time
\* with FileWrite
C1_Witness ==
    /\ ret["t1"].kind = "Err" /\ ret["t1"].error = "FileWrite"
    /\ hErr["t1"].n >= 2 /\ hErr["t1"].code = NvttErrorValue.FileWrite

\* C2: when compress returns Err and the error callback did not run during
\* the call, the returned Error is Unknown, whatever earlier calls recorded.
C2_NoHookGivesUnknown ==
    \A t \in Threads :
        (ret[t].kind = "Err" /\ ~hErr[t].fired) => ret[t].error = "Unknown"

\* C3: a step that is not a step of thread t's compress call (t's position
\* and callback count are unchanged) leaves t's error slot, accumulator,
\* metadata and result unchanged; and the result of each call is built from
\* the callbacks delivered on its own thread.
C3_OwnHooksOnly ==
    \A t \in Threads :
        /\ ret[t].kind = "Memory" => ret[t].data = hData[t]
        /\ (ret[t].kind = "Memory" /\ hBegin[t].fired)
              => (ret[t].width = hBegin[t].width /\ ret[t].height = hBegin[t].height)
        /\ (ret[t].kind = "Err" /\ hErr[t].fired)
              => EnumToRaw(ErrorDecl, ret[t].error) = hErr[t].code

C3_ThreadIsolation ==
    /\ [][\A t \in Threads :
            (pc'[t] = pc[t] /\ hCount'[t] = hCount[t])
                => /\ ERR'[t] = ERR[t] /\ OUT_DATA'[t] = OUT_DATA[t]
                   /\ WIDTH'[t] = WIDTH[t] /\ HEIGHT'[t] = HEIGHT[t]
                   /\ DEPTH'[t] = DEPTH[t] /\ FACE'[t] = FACE[t]
                   /\ MIPLEVEL'[t] = MIPLEVEL[t] /\ ret'[t] = ret[t]]_vars
    /\ []C3_OwnHooksOnly

\* both threads are inside compress, each has received bytes, and t2 works
\* with wrappers that were constructed on t1
C3_Witness ==
    /\ pc["t1"] = "Streaming" /\ pc["t2"] = "Streaming"
    /\ OUT_DATA["t1"] # << >> /\ OUT_DATA["t2"] # << >>
    /\ OUT_DATA["t1"] # OUT_DATA["t2"]
    /\ hErr["t1"].fired /\ hErr["t2"].fired
    /\ args["t2"].oo = <<"OutputOptions", 2>>

\* C4: a successful compress returns File exactly when the destination of
\* its OutputOptions is the file, and Memory otherwise; write_to_file is true
\* exactly when the last successful set_output_location (or, without one,
\* the constructor) selected the file.
C4_DestinationDecidesPackaging ==
    /\ \A t \in Threads :
          ret[t].kind \in {"File", "Memory"}
              => (ret[t].kind = "File" <=> hDest[t] = "file")
    /\ \A oo \in OutHandles :
          wrapper[oo] = "owned" => (write_to_file[oo] <=> dest[oo] = "file")

\* a File result from an OutputOptions that was used for in-memory output
\* before and was then given a file name
C4_Witness ==
    /\ ret["t1"].kind = "File"
    /\ fileName[<<"OutputOptions", 1>>] # NoPath
    /\ outputHandler[<<"OutputOptions", 1>>] # NoHandler

\* C5: after a successful in-memory compress during which the begin callback
\* ran, the returned metadata are the arguments of its last invocation.
C5_LastBeginMetadata ==
    \A t \in Threads :
        (ret[t].kind = "Memory" /\ hBegin[t].fired)
            => /\ ret[t].width = hBegin[t].width
               /\ ret[t].height = hBegin[t].height
               /\ ret[t].depth = hBegin[t].depth
               /\ ret[t].face = hBegin[t].face
               /\ ret[t].miplevel = hBegin[t].miplevel

\* an in-memory result after two begin callbacks
C5_Witness ==
    /\ ret["t1"].kind = "Memory" /\ hBegin["t1"].n >= 2
    /\ ret["t1"].width = 2 /\ ret["t1"].miplevel = 1

\* C6: after a successful in-memory compress the returned data is the
\* concatenation, in arrival order, of all chunks of the call, over all
\* subresources and whatever the size hints were.
C6_DataIsConcatenation ==
    \A t \in Threads : ret[t].kind = "Memory" => ret[t].data = hData[t]

\* chunks before and after a begin callback whose hint was smaller than what
\* followed
C6_Witness ==
    /\ ret["t1"].kind = "Memory" /\ ret["t1"].data = <<7, 8, 9>>
    /\ hBegin["t1"].fired /\ hTail["t1"] = <<8, 9>> /\ hBegin["t1"].size < 2

\* C7 as stated: the begin callback clears the accumulator, so the returned
\* buffer holds the bytes pushed after the last begin callback only.
C7_OnlyLastSubresource ==
    \A t \in Threads :
        (ret[t].kind = "Memory" /\ hBegin[t].fired)
            => Len(ret[t].data) = Len(hTail[t])

\* C7 amended: the begin callback keeps the accumulated bytes, so the
\* returned buffer ends with the bytes pushed after the last begin callback
\* and has the length of all bytes pushed during the call.
C7_BeginKeepsContent ==
    \A t \in Threads :
        (ret[t].kind = "Memory" /\ hBegin[t].fired)
            => LET n == Len(ret[t].data) IN
               /\ n = Len(hData[t])
               /\ n >= Len(hTail[t])
               /\ SubSeq(ret[t].data, n - Len(hTail[t]) + 1, n) = hTail[t]

\* bytes were pushed before the last begin callback, and after it
C7_Witness ==
    /\ ret["t1"].kind = "Memory" /\ hBegin["t1"].fired
    /\ hTail["t1"] # << >> /\ Len(hData["t1"]) > Len(hTail["t1"])

\* C8: a successful in-memory compress during which the begin callback never
\* ran returns zero for width, height, depth, face and miplevel.
C8_NoBeginGivesZero ==
    \A t \in Threads :
        (ret[t].kind = "Memory" /\ ~hBegin[t].fired)
            => /\ ret[t].width = 0 /\ ret[t].height = 0 /\ ret[t].depth = 0
               /\ ret[t].face = 0 /\ ret[t].miplevel = 0

\* C9: during a call the accumulator holds the bytes pushed during that call
\* and nothing of earlier calls; a failed call returns no bytes, and a
\* successful one as many as were pushed during it.
C9_NoBytesAcrossCalls ==
    \A t \in Threads :
        /\ pc[t] = "Streaming" => OUT_DATA[t] = hData[t]
        /\ ret[t].kind = "Err" => ret[t].data = << >>
        /\ ret[t].kind = "Memory" => Len(ret[t].data) = Len(hData[t])

\* a failed call has left bytes behind in the accumulator
C9_Witness ==
    /\ ret["t1"].kind = "Err" /\ pc["t1"] = "Idle"
    /\ OUT_DATA["t1"] # << >> /\ hData["t1"] = OUT_DATA["t1"]

\* the native destroy function of each wrapper type
MatchingDestroy ==
    [Compressor |-> "nvttDestroyCompressor",
     CompressionOptions |-> "nvttDestroyCompressionOptions",
     InputOptions |-> "nvttDestroyInputOptions",
     OutputOptions |-> "nvttDestroyOutputOptions"]

\* C10: the handle of a dropped wrapper has received its own type's destroy
\* call exactly once; the handle of a wrapper that is alive, or was
\* surrendered with into_raw, has received none.
C10_DestroyedExactlyOnce ==
    \A h \in Handles :
        /\ wrapper[h] = "dropped" => destroyed[h] = <<MatchingDestroy[h[1]]>>
        /\ wrapper[h] # "dropped" => destroyed[h] = << >>

\* after a compress call, one wrapper of each type went each way
C10_Witness ==
    /\ ret["t1"].kind # "None"
    /\ wrapper[<<"OutputOptions", 1>>] = "raw"
    /\ wrapper[<<"Compressor", 1>>] = "dropped"
    /\ wrapper[<<"Compressor", 2>>] = "raw"
    /\ wrapper[<<"InputOptions", 1>>] = "dropped"
    /\ wrapper[<<"CompressionOptions", 1>>] = "dropped"

\* the native create function of each wrapper type
MatchingCreate ==
    [Compressor |-> "nvttCreateCompressor",
     CompressionOptions |-> "nvttCreateCompressionOptions",
     InputOptions |-> "nvttCreateInputOptions",
     OutputOptions |-> "nvttCreateOutputOptions"]

\* C11: a constructor calls its type's native create function and nothing
\* else; when that returned null the constructor returned Err(Unknown), no
\* wrapper exists for the creation and its handle has received no destroy
\* call; when it returned a handle the constructor returned Ok and the
\* wrapper of that handle is alive on the constructing thread (an
\* OutputOptions with write_to_file set).
C11_NullHandleIsUnknown ==
    \A t \in Threads :
        hOp[t].op = "new"
            => LET h == hOp[t].h IN
               /\ calls[t] = <<MatchingCreate[h[1]]>>
               /\ hOp[t].ptr = "null"
                     => /\ opRet[t] = OpErr("Unknown")
                        /\ wrapper[h] = "none" /\ destroyed[h] = << >>
               /\ hOp[t].ptr # "null"
                     => /\ opRet[t] = OpOk
                        /\ wrapper[h] = "owned" /\ owner[h] = t
                        /\ destroyed[h] = << >>
                        /\ h[1] = "OutputOptions" => write_to_file[h]

\* the creation of an OutputOptions failed after other wrappers were
\* constructed and one of them was dropped
C11_Witness ==
    /\ hOp["t1"].op = "new" /\ hOp["t1"].h = <<"OutputOptions", 1>>
    /\ hOp["t1"].ptr = "null" /\ opRet["t1"].kind = "Err"
    /\ wrapper[<<"Compressor", 1>>] = "dropped"
    /\ wrapper[<<"InputOptions", 1>>] = "owned"

\* the native values the branches of a decl_enum! type name
DeclaredValues(ty) == {EnumDecl[ty][j][2] : j \in 1..Len(EnumDecl[ty])}

\* C12: for every enumerant E of every decl_enum type, try_from of E's
\* native value succeeds, and the enumerant it returns has E's native value.
C12_NativeRoundTrip ==
    (px.fn = "enum" /\ px.e # "")
        => /\ px.stage >= 1 => px.raw \in DeclaredValues(px.ty)
           /\ px.stage >= 2 => px.back.ok /\ px.back.val \in Enumerants(px.ty)
           /\ px.stage >= 3 => px.raw2 = px.raw

\* the round trip of Format::Dxt5, whose native value is also Bc3's
C12_Witness ==
    /\ px.fn = "enum" /\ px.ty = "Format" /\ px.e = "Dxt5" /\ px.stage = 3
    /\ px.back.val # px.e /\ px.raw2 = NvttFormatValue.DXT5

\* C13: try_from of a native value that no enumerant of the type has
\* returns Err(()).
C13_UndeclaredFailsClosed ==
    (px.fn = "enum" /\ px.stage >= 2 /\ px.raw \notin DeclaredValues(px.ty))
        => ~px.back.ok

\* try_from of 24 for Format, and of 3 for Container, were evaluated
C13_Witness ==
    /\ px.fn = "enum" /\ px.stage = 2 /\ ~px.back.ok
    /\ \/ px.ty = "Format" /\ px.raw = 24
       \/ px.ty = "Container" /\ px.raw = 3

\* the enumerants that share their native value with one declared before them,
\* and that one
C14_Collapse ==
    [Dxt1 |-> "Bc1", Dxt1a |-> "Bc1a", Dxt3 |-> "Bc2", Dxt5 |-> "Bc3", Dxt5n |-> "Bc3n",
     Rgba |-> "Rgb"]

\* C14: try_from of E's native value returns E, except for the Format
\* enumerants that share their value with one declared before them, for which
\* it returns that one; try_from of any native value returns an enumerant
\* before which no enumerant of that value is declared.
C14_FirstDeclaredWins ==
    /\ (px.fn = "enum" /\ px.e # "" /\ px.stage >= 2)
          => IF px.ty = "Format" /\ px.e \in DOMAIN C14_Collapse
             THEN px.back.val = C14_Collapse[px.e] /\ px.back.val # px.e
             ELSE px.back.val = px.e
    /\ (px.fn = "enum" /\ px.stage >= 2 /\ px.back.ok)
          => LET decl == EnumDecl[px.ty]
                 i == CHOOSE j \in 1..Len(decl) : decl[j][1] = px.back.val
             IN  /\ decl[i][2] = px.raw
                 /\ \A j \in 1..(i - 1) : decl[j][2] # px.raw

\* try_from of the native value of Format::Rgba returned Format::Rgb
C14_Witness ==
    /\ px.fn = "enum" /\ px.ty = "Format" /\ px.e = "Rgba" /\ px.stage >= 2
    /\ px.back.ok /\ px.back.val = "Rgb"

\* a path with a nul byte
HasNul(path) == \E i \in 1..Len(path) : path[i] = 0

\* a failed set_output_location called no native function and left the
\* wrappers and the native handles as they were
C15_FailureChangesNothing ==
    [][\A t \in Threads :
          (hOp'[t].op = "set_output_location" /\ opRet'[t].kind = "Err")
              => /\ calls'[t] = << >>
                 /\ UNCHANGED <<write_to_file, dest, fileName, errorHandler,
                                outputHandler, wrapper, destroyed>>]_vars

\* C15 as stated: set_output_location with a File path that has a nul byte
\* returns Err(Nul), calls no native function and leaves the OutputOptions
\* and the file name of the native handle unchanged.
C15_NulPathIsNul ==
    /\ C15_FailureChangesNothing
    /\ [](\A t \in Threads :
            (hOp[t].op = "set_output_location" /\ hOp[t].loc.file
             /\ HasNul(hOp[t].loc.path))
                => opRet[t] = OpErr("Nul") /\ calls[t] = << >>)

\* C15 amended: such a call returns an error, calls no native function and
\* changes nothing; the error is Nul on unix, and on windows when the path is
\* ASCII, where a path that is not ASCII fails with Utf8Convert or
\* AsciiConvert before the nul check.
C15_NulPathIsRejected ==
    /\ C15_FailureChangesNothing
    /\ [](\A t \in Threads :
            (hOp[t].op = "set_output_location" /\ hOp[t].loc.file
             /\ HasNul(hOp[t].loc.path))
                => /\ opRet[t].kind = "Err" /\ calls[t] = << >>
                   /\ fileName[hOp[t].h] # hOp[t].loc.path
                   /\ (platform = "unix" \/ \A i \in 1..Len(hOp[t].loc.path) :
                                                hOp[t].loc.path[i] < 128)
                         => opRet[t].error = "Nul"
                   /\ opRet[t].error \in {"Nul", "Utf8Convert", "AsciiConvert"})

\* a path with a nul byte was rejected by an OutputOptions that had been
\* given a file name and then switched to in-memory output
C15_Witness ==
    /\ hOp["t1"].op = "set_output_location" /\ hOp["t1"].loc.path = <<97, 0, 98>>
    /\ opRet["t1"] = OpErr("Nul") /\ calls["t1"] = << >>
    /\ fileName[<<"OutputOptions", 1>>] = <<97>>
    /\ ~write_to_file[<<"OutputOptions", 1>>]
    /\ ret["t1"].kind = "Memory"

\* the paths of the model that are not valid UTF-8, and those that are valid
\* UTF-8 with a character that is not ASCII
C16_NotUtf8 == { <<237, 160, 128>>, <<237, 160, 128, 0>> }
C16_NotAscii == { <<195, 169>>, <<195, 169, 0>> }

\* C16: set_output_location returns for every path; on windows a path that
\* is not valid UTF-8 gives Utf8Convert and a valid one with a non-ASCII
\* character gives AsciiConvert, with or without a nul byte, and an ASCII path
\* is accepted unless it has a nul byte; on unix every path without a nul
\* byte is accepted; the native handle is given the bytes of an accepted path.
C16_PlatformAsymmetry ==
    \A t \in Threads :
        (hOp[t].op = "set_output_location" /\ hOp[t].loc.file)
            => LET path == hOp[t].loc.path
                   accepted == /\ opRet[t] = OpOk
                               /\ calls[t] = <<"nvttSetOutputOptionsFileName">>
                               /\ fileName[hOp[t].h] = path
                               /\ write_to_file[hOp[t].h]
               IN  /\ opRet[t].kind \in {"Ok", "Err"}
                   /\ (platform = "windows" /\ path \in C16_NotUtf8)
                         => opRet[t] = OpErr("Utf8Convert")
                   /\ (platform = "windows" /\ path \in C16_NotAscii)
                         => opRet[t] = OpErr("AsciiConvert")
                   /\ (platform = "windows" /\ path \notin C16_NotUtf8 \cup C16_NotAscii)
                         => IF HasNul(path) THEN opRet[t] = OpErr("Nul") ELSE accepted
                   /\ platform = "unix"
                         => IF HasNul(path) THEN opRet[t] = OpErr("Nul") ELSE accepted

\* on windows a path that is not ASCII and has a nul byte gave AsciiConvert
C16_Witness ==
    /\ platform = "windows" /\ hOp["t1"].op = "set_output_location"
    /\ hOp["t1"].loc.path = <<195, 169, 0>> /\ opRet["t1"] = OpErr("AsciiConvert")

\* bytes of one pixel of each input format
C17_BytesPerPixel == [Bgra8Ub |-> 4, Rgba16F |-> 8, Rgba32F |-> 16, R32F |-> 4]

\* C17: set_mipmap_data returns Ok when the length of the data is width x
\* height x depth x bytes-per-pixel of the input format, and Err(Unknown) for
\* every other length.
C17_LengthDecidesResult ==
    \A t \in Threads :
        hOp[t].op = "set_mipmap_data"
            => LET m == hOp[t].mip
                   expected == m.w * m.h * m.d * C17_BytesPerPixel[inFormat[hOp[t].h]]
               IN  IF m.len = expected THEN opRet[t] = OpOk
                   ELSE opRet[t] = OpErr("Unknown")

C19_SessionStateCleared ==
    \A t \in Threads :
        (pc[t] = "Idle" /\ ret[t].kind \in {"Err", "File", "Memory"})
            => OUT_DATA[t] = << >> /\ ERR[t] = 0

\* C20: output_callback returns false exactly when len is negative, and then
\* leaves the accumulator as it was; otherwise it returns true and the
\* accumulator is what it was followed by the first len bytes behind data_ptr.
C20_FalseIffNegativeLength ==
    (px.fn = "output_callback" /\ px.stage = 1)
        => /\ px.out.ret = FALSE <=> px.len < 0
           /\ px.len < 0 => px.out.acc = px.acc
           /\ px.len >= 0
                 => /\ px.out.ret = TRUE
                    /\ Len(px.out.acc) = Len(px.acc) + px.len
                    /\ SubSeq(px.out.acc, 1, Len(px.acc)) = px.acc
                    /\ \A i \in 1..px.len : px.out.acc[Len(px.acc) + i] = px.data[i]

\* a negative length, with bytes behind data_ptr, on an accumulator that
\* holds bytes
C20_Witness ==
    /\ px.fn = "output_callback" /\ px.stage = 1 /\ px.len < 0
    /\ px.data # << >> /\ px.acc = <<1, 2>>
    /\ px.out.ret = FALSE /\ px.out.acc = <<1, 2>>

\* C21: on each thread a compress call goes from Idle to Streaming with an
\* empty accumulator and no result, and its return goes from Streaming to
\* Idle; while the thread is Streaming its call stays the same call (no
\* second call starts) and the caller holds no result; the accumulated bytes
\* are moved to the caller at the return of a successful in-memory call
\* (the accumulator is empty afterwards), and no other return hands out
\* bytes.
C21_StreamingHasNoResult ==
    \A t \in Threads :
        /\ pc[t] \in {"Idle", "Streaming"}
        /\ pc[t] = "Streaming" => ret[t] = NoRet /\ args[t] # NoArgs
        /\ pc[t] = "Idle" => args[t] = NoArgs
        /\ ret[t].data # << >> => ret[t].kind = "Memory"

C21_IdleStreamingIdle ==
    /\ [][\A t \in Threads :
            /\ (pc[t] = "Idle" /\ pc'[t] = "Streaming")
                  => OUT_DATA'[t] = << >> /\ hCount'[t] = 0
            /\ (pc[t] = "Streaming" /\ pc'[t] = "Streaming")
                  => args'[t] = args[t] /\ hCount'[t] >= hCount[t]
            /\ (pc[t] = "Streaming" /\ pc'[t] = "Idle")
                  => /\ ret'[t].kind \in {"Err", "File", "Memory"}
                     /\ ret'[t].kind = "Memory"
                           => ret'[t].data = OUT_DATA[t] /\ OUT_DATA'[t] = << >>
                     /\ ret'[t].kind # "Memory" => ret'[t].data = << >>
            /\ pc'[t] = pc[t] => ret'[t] = ret[t]]_vars
    /\ []C21_StreamingHasNoResult

\* t1 has been handed the bytes of its call while t2 is still Streaming
\* with bytes in its accumulator
C21_Witness ==
    /\ pc["t1"] = "Idle" /\ ret["t1"].kind = "Memory" /\ ret["t1"].data # << >>
    /\ OUT_DATA["t1"] = << >>
    /\ pc["t2"] = "Streaming" /\ OUT_DATA["t2"] # << >>

\* C22: output_begin_callback returns for every c_int size hint, the
\* negative ones included.
C22_BeginNeverPanics ==
    (px.fn = "output_begin_callback" /\ px.stage = 1) => px.out = "returns"

\* C23: compress returns Err exactly when nvttCompress returned NVTT_False;
\* a call during which the error callback ran and nvttCompress returned
\* NVTT_True returns File or Memory, and once it has returned the error slot
\* of the thread holds the code of the last error callback.
C23_StatusDecidesResult ==
    \A t \in Threads :
        /\ ret[t].kind = "None" <=> hStatus[t] = "None"
        /\ ret[t].kind = "Err" <=> hStatus[t] = "NVTT_False"
        /\ ret[t].kind \in {"File", "Memory"} <=> hStatus[t] = "NVTT_True"
        /\ (hStatus[t] = "NVTT_True" /\ hErr[t].fired)
              => ret[t].kind \in {"File", "Memory"} /\ ERR[t] = hErr[t].code

\* a successful in-memory call during which the error callback ran with
\* FileWrite
C23_Witness ==
    /\ hStatus["t1"] = "NVTT_True" /\ ret["t1"].kind = "Memory"
    /\ hErr["t1"].fired /\ hErr["t1"].code = NvttErrorValue.FileWrite
    /\ ERR["t1"] = NvttErrorValue.FileWrite /\ pc["t1"] = "Idle"

\* C24: when nvttCompress returned NVTT_False and the error slot holds a
\* value that is the native value of no enumerant of Error, compress returns
\* Err(Unknown).
C24_UnrecognizedIsUnknown ==
    \A t \in Threads :
        (hStatus[t] = "NVTT_False" /\ ERR[t] \notin RecognizedCodes)
            => ret[t].kind = "Err" /\ ret[t].error = "Unknown"

\* a failed call during which the error callback ran with 7, after a
\* recognized code
C24_Witness ==
    /\ hStatus["t1"] = "NVTT_False" /\ ret["t1"] = Ret("Err", "Unknown", << >>, 0, 0, 0, 0, 0)
    /\ hErr["t1"].n >= 2 /\ hErr["t1"].code = 7 /\ ERR["t1"] = 7

\* C25: entering compress installs err_callback on the OutputOptions handle
\* on every call; with an in-memory destination it then installs
\* output_begin_callback and output_callback with no end hook and calls
\* nvttCompress; with a file destination it calls nvttCompress right after
\* the error handler, makes no output-handler call and leaves the output
\* hooks of the handle as they were.
C25_HooksByDestination ==
    [][\A t \in Threads :
          (pc[t] = "Idle" /\ pc'[t] = "Streaming") =>
             LET oo == args'[t].oo
             IN  /\ errorHandler'[oo] = "err_callback"
                 /\ IF write_to_file[oo]
                    THEN /\ calls'[t] = <<"nvttSetOutputOptionsErrorHandler",
                                          "nvttCompress">>
                         /\ outputHandler'[oo] = outputHandler[oo]
                    ELSE /\ calls'[t] = <<"nvttSetOutputOptionsErrorHandler",
                                          "nvttSetOutputOptionsOutputHandler",
                                          "nvttCompress">>
                         /\ outputHandler'[oo] =
                               [begin |-> "output_begin_callback",
                                output |-> "output_callback", end |-> "None"]]_vars

\* inside a compress to a file on a handle whose output hooks were installed
\* by an earlier in-memory compress
C25_Witness ==
    LET oo == <<"OutputOptions", 1>>
    IN  /\ pc["t1"] = "Streaming" /\ args["t1"].oo = oo /\ write_to_file[oo]
        /\ calls["t1"] = <<"nvttSetOutputOptionsErrorHandler", "nvttCompress">>
        /\ errorHandler[oo] = "err_callback"
        /\ outputHandler[oo] = [begin |-> "output_begin_callback",
                                output |-> "output_callback", end |-> "None"]

\* C26: set_image calls nvttResetInputOptionsTextureLayout,
\* nvttSetInputOptionsFormat, nvttSetInputOptionsTextureLayout and
\* nvttSetInputOptionsMipmapData in this order; it returns Ok when the last
\* one returned NVTT_True and Err(Unknown) otherwise, and in both cases the
\* handle holds the format of the image and the layout (D2, w, h, 1, 1).
C26_SetImageNotRolledBack ==
    \A t \in Threads :
        hOp[t].op = "set_image" =>
            /\ calls[t] = <<"nvttResetInputOptionsTextureLayout",
                            "nvttSetInputOptionsFormat",
                            "nvttSetInputOptionsTextureLayout",
                            "nvttSetInputOptionsMipmapData">>
            /\ opRet[t] \in {OpOk, OpErr("Unknown")}
            /\ inFormat[hOp[t].h] = ImageFormat(hOp[t].img)
            /\ inLayout[hOp[t].h] =
                  [type |-> "D2", w |-> hOp[t].mip.w, h |-> hOp[t].mip.h, d |-> 1,
                   array_size |-> 1]

\* set_image of a 2x1 f32 rgba image failed on a handle that held Bgra8Ub
\* before: the handle now holds Rgba32F and the 2x1 layout
C26_Witness ==
    /\ hOp["t1"].op = "set_image" /\ hOp["t1"].img = "Rgba"
    /\ hOp["t1"].mip = [len |-> 32, w |-> 2, h |-> 1, d |-> 1]
    /\ opRet["t1"] = OpErr("Unknown")
    /\ inFormat[<<"InputOptions", 1>>] = "Rgba32F"
    /\ inLayout[<<"InputOptions", 1>>] =
          [type |-> "D2", w |-> 2, h |-> 1, d |-> 1, array_size |-> 1]

\* C27: bool::from(NvttBoolean::from(b)) is b for both bools,
\* NvttBoolean::from(bool::from(n)) is n for both NvttBoolean values, !n is
\* the other value and !!n is n, and n == b and b == n both hold exactly
\* when bool::from(n) is b, true standing for NVTT_True.
C27_BooleanMarshaling ==
    (px.fn = "NvttBoolean" /\ px.stage = 1) =>
        /\ px.out.back_b = px.b
        /\ px.out.back_n = px.n
        /\ px.out.from_b \in NvttBoolean
        /\ px.out.from_b = "NVTT_True" <=> px.b
        /\ px.out.not \in NvttBoolean \ {px.n}
        /\ px.out.not_not = px.n
        /\ px.out.n_eq_b <=> (px.out.from_n <=> px.b)
        /\ px.out.b_eq_n <=> (px.out.from_n <=> px.b)

\* NVTT_False and true: they compare unequal, and !NVTT_False is what true
\* converts to
C27_Witness ==
    /\ px.fn = "NvttBoolean" /\ px.stage = 1
    /\ px.n = "NVTT_False" /\ px.b
    /\ ~px.out.n_eq_b /\ ~px.out.b_eq_n
    /\ px.out.not = px.out.from_b

====
